---- MODULE Spec2Model ----
(***************************************************************************)
(* Model of the conversation analyser of dmaynor/llm_convo: the legacy     *)
(* entry point parse.py and the current entry point parse3.py.             *)
(*                                                                         *)
(* Text is modelled character by character: a Python str is a sequence of  *)
(* one-character strings.  A JSON value is a tagged record, so that the    *)
(* code's isinstance tests, truthiness tests and attribute look-ups can be *)
(* evaluated as Python evaluates them.                                     *)
(***************************************************************************)
EXTENDS Integers, Sequences, FiniteSets, TLC

VARIABLES
    entry,          \* which script runs: "parse" (parse.py) or "parse3" (parse3.py)
    pc,             \* position of the run
    conversations,  \* the loaded JSON document
    user_messages,  \* the utterance sequence (a Python list)
    args,           \* the parameters of the call / the parsed command line
    results,        \* what the analyses returned (parse3) or printed (parse)
    executed,       \* the analyses that ran to completion, in order
    exc,            \* the exception that ended the run, or "none"
    similarity_matrix,  \* the cosine similarities of the last rephrasing analysis
    rounding,       \* how floating point rounded the similarities that are,
                    \* in exact arithmetic, equal to the threshold
    printed         \* the keys of the results written to standard output, in order

vars == <<entry, pc, conversations, user_messages, args, results, executed, exc,
          similarity_matrix, rounding, printed>>

----------------------------------------------------------------------------
(* Bounds of the model.                                                    *)

MaxConvs == 2
MaxNodes == 2
MaxUtterances == 2
MaxTopN == 3
MaxQuestions == 4

----------------------------------------------------------------------------
(* JSON values and the Python operations the code applies to them.         *)

Null == [t |-> "null"]
Str(s) == [t |-> "str", v |-> s]
List(xs) == [t |-> "list", v |-> xs]
\* A dict keeps its items in insertion order: a sequence of <<key, value>>.
Dict(items) == [t |-> "dict", items |-> items]
IntVal(n) == [t |-> "int", v |-> n]
EmptyDict == Dict(<<>>)

\* bool(v)
Truthy(v) ==
    CASE v.t = "null" -> FALSE
      [] v.t = "str"  -> Len(v.v) > 0
      [] v.t = "list" -> Len(v.v) > 0
      [] v.t = "dict" -> Len(v.items) > 0
      [] v.t = "int"  -> v.v # 0
      [] OTHER        -> TRUE

\* hasattr(v, 'get'): only a dict has .get (and .values)
HasGet(v) == v.t = "dict"

\* d.get(key, default) for a dict d
Get(d, key, default) ==
    IF \E i \in 1..Len(d.items) : d.items[i][1] = key
    THEN d.items[CHOOSE i \in 1..Len(d.items) : d.items[i][1] = key][2]
    ELSE default

\* list(d.values())
Values(d) == [i \in 1..Len(d.items) |-> d.items[i][2]]

\* The str 'user'
UserRole == Str(<<"u", "s", "e", "r">>)

----------------------------------------------------------------------------
(* extract_user_messages                                                   *)

Skip == [t |-> "skip"]
Raise(e) == [t |-> "raise", exc |-> e]
Emit(v) == [t |-> "emit", v |-> v]

\* ExtractNode taking the last part of the message instead of the first.
ExtractNodeLastPart(node) ==
    IF ~HasGet(node) THEN Raise("AttributeError")
    ELSE LET message == Get(node, "message", Null) IN
    IF ~Truthy(message) THEN Skip
    ELSE IF ~HasGet(message) THEN Raise("AttributeError")
    ELSE LET author == Get(message, "author", EmptyDict) IN
    IF ~HasGet(author) THEN Raise("AttributeError")
    ELSE IF Get(author, "role", Null) # UserRole THEN Skip
    ELSE LET content == Get(message, "content", EmptyDict) IN
    IF ~HasGet(content) THEN Raise("AttributeError")
    ELSE LET content_parts == Get(content, "parts", List(<<>>)) IN
    IF content_parts.t = "list" /\ Truthy(content_parts)
    THEN Emit(content_parts.v[Len(content_parts.v)])
    ELSE Skip

\* The body of the inner loop for one node: what it appends, or that it raises.
ExtractNode(node) ==
    IF ~HasGet(node) THEN Raise("AttributeError")
    ELSE LET message == Get(node, "message", Null) IN
    IF ~Truthy(message) THEN Skip
    ELSE IF ~HasGet(message) THEN Raise("AttributeError")
    ELSE LET author == Get(message, "author", EmptyDict) IN
    IF ~HasGet(author) THEN Raise("AttributeError")
    ELSE IF Get(author, "role", Null) # UserRole THEN Skip
    ELSE LET content == Get(message, "content", EmptyDict) IN
    IF ~HasGet(content) THEN Raise("AttributeError")
    ELSE LET content_parts == Get(content, "parts", List(<<>>)) IN
    IF content_parts.t = "list" /\ Truthy(content_parts)
    THEN Emit(content_parts.v[1])
    ELSE Skip

\* The inner loop over mapping.values(), from node i on, with the list so far.
RECURSIVE ExtractNodes(_, _, _)
ExtractNodes(nodes, i, acc) ==
    IF acc.t = "raise" \/ i > Len(nodes) THEN acc
    ELSE LET r == ExtractNode(nodes[i]) IN
         ExtractNodes(nodes, i + 1,
            CASE r.t = "raise" -> r
              [] r.t = "emit"  -> List(Append(acc.v, r.v))
              [] OTHER         -> acc)

\* The outer loop over the conversations, from conversation c on.
RECURSIVE ExtractConvs(_, _, _)
ExtractConvs(convs, c, acc) ==
    IF acc.t = "raise" \/ c > Len(convs) THEN acc
    ELSE LET conversation == convs[c] IN
         IF ~HasGet(conversation) THEN Raise("AttributeError")
         ELSE LET mapping == Get(conversation, "mapping", EmptyDict) IN
              IF ~HasGet(mapping) THEN Raise("AttributeError")
              ELSE ExtractConvs(convs, c + 1, ExtractNodes(Values(mapping), 1, acc))

\* extract_user_messages(conversations): List(user_messages), or Raise(e).
extract_user_messages(convs) == ExtractConvs(convs, 1, List(<<>>))

----------------------------------------------------------------------------
(* The JSON documents the extraction is run on.  Absent marks a key that   *)
(* the dict does not have; it is not a JSON value and never reaches the    *)
(* code.                                                                   *)

Absent == [t |-> "absent"]
Item(key, v) == IF v = Absent THEN <<>> ELSE << <<key, v>> >>

PartA == Str(<<"a">>)
PartB == Str(<<"b">>)
AssistantRole == Str(<<"b", "o", "t">>)

\* 'parts': missing, null, not a list, or a list of up to two parts
PartsPool ==
    {Absent, Null, PartA,
     List(<<>>), List(<<PartA>>), List(<<PartB>>),
     List(<<PartA, PartB>>), List(<<PartB, PartA>>)}

\* 'content': missing, null, not a mapping, or a dict with or without 'parts'
ContentPool ==
    {Absent, Null, PartA} \cup {Dict(Item("parts", p)) : p \in PartsPool}

UserAuthor == Dict(Item("role", UserRole))

\* 'author': missing, null, not a mapping, or a dict with or without 'role'
AuthorPool ==
    {Absent, Null, PartA, EmptyDict, UserAuthor, Dict(Item("role", AssistantRole))}

\* 'message': missing, null, a non-empty str, or a dict.  The content of a
\* message is read only when its author is a user: the other authors come
\* with two contents.
MessagePool ==
    {Absent, Null, PartA}
    \cup {Dict(Item("author", UserAuthor) \o Item("content", c)) : c \in ContentPool}
    \cup {Dict(Item("author", a) \o Item("content", c)) :
            a \in AuthorPool \ {UserAuthor},
            c \in {Absent, Dict(Item("parts", List(<<PartA>>)))}}

\* A node of a mapping: a dict with or without 'message'.
NodePool == {Dict(Item("message", m)) : m \in MessagePool}

\* A mapping keeps its nodes in insertion order under the keys 1, 2, ...
Mapping(nodes) == Dict([i \in 1..Len(nodes) |-> <<i, nodes[i]>>])

\* A conversation of the given nodes; the conversation of no node has no
\* 'mapping'.
Conversation(nodes) ==
    IF nodes = <<>> THEN EmptyDict ELSE Dict(Item("mapping", Mapping(nodes)))

\* The shapes of a document: the number of nodes of each of its at most c
\* conversations, at most n nodes in all.
RECURSIVE Shapes(_, _)
Shapes(c, n) ==
    {<<>>} \cup
    (IF c = 0 THEN {}
     ELSE UNION {{<<k>> \o rest : rest \in Shapes(c - 1, n - k)} : k \in 0..n})

RECURSIVE Sum(_)
Sum(shape) == IF shape = <<>> THEN 0 ELSE Head(shape) + Sum(Tail(shape))

\* The document of the given shape whose nodes are, in order, the given ones.
RECURSIVE Document(_, _)
Document(shape, nodes) ==
    IF shape = <<>> THEN <<>>
    ELSE <<Conversation(SubSeq(nodes, 1, Head(shape)))>>
         \o Document(Tail(shape), SubSeq(nodes, Head(shape) + 1, Len(nodes)))

\* The nodes of a document, flattened in conversation order then mapping order
\* (the mappings that are dicts).
RECURSIVE AllNodes(_)
AllNodes(convs) ==
    IF convs = <<>> THEN <<>>
    ELSE LET m == Get(Head(convs), "mapping", EmptyDict) IN
         (IF m.t = "dict" THEN Values(m) ELSE <<>>) \o AllNodes(Tail(convs))

----------------------------------------------------------------------------
(* The extraction, run on its own.                                         *)

NoArgs == [none |-> TRUE]

InitExtract ==
    /\ entry \in {"parse", "parse3"}
    /\ pc = "loaded"
    /\ \E shape \in Shapes(MaxConvs, MaxNodes) :
         \E nodes \in [1..Sum(shape) -> NodePool] :
            conversations = Document(shape, nodes)
    /\ user_messages = <<>>
    /\ args = NoArgs
    /\ results = <<>>
    /\ executed = <<>>
    /\ exc = "none"
    /\ similarity_matrix = <<>>
    /\ rounding = <<>>
    /\ printed = <<>>

\* user_messages = extract_user_messages(conversations)
Extract ==
    /\ pc = "loaded"
    /\ LET r == extract_user_messages(conversations) IN
       IF r.t = "raise"
       THEN /\ pc' = "raised"
            /\ exc' = r.exc
            /\ user_messages' = user_messages
       ELSE /\ pc' = "extracted"
            /\ exc' = exc
            /\ user_messages' = r.v
    /\ UNCHANGED <<entry, conversations, args, results, executed, similarity_matrix, rounding, printed>>

NextExtract == Extract

SpecExtract == InitExtract /\ [][NextExtract]_vars

----------------------------------------------------------------------------
(* Claims about the extraction.                                            *)

\* The values a dict holds under a key (none when v is not a dict).
FieldVals(v, key) ==
    IF v.t = "dict"
    THEN {v.items[i][2] : i \in {j \in 1..Len(v.items) : v.items[j][1] = key}}
    ELSE {}

\* The messages of a node whose author has the role "user".
UserMessagesOf(node) ==
    {m \in FieldVals(node, "message") :
        \E a \in FieldVals(m, "author") : UserRole \in FieldVals(a, "role")}

\* The non-empty lists 'parts' of the user messages of a node.
PartLists(node) ==
    {p \in UNION {FieldVals(c, "parts") :
                    c \in UNION {FieldVals(m, "content") : m \in UserMessagesOf(node)}} :
        p.t = "list" /\ Len(p.v) > 0}

\* C1: when the extraction returns, the list it returns holds exactly one
\* entry per node whose message has author role "user" and a non-empty list
\* parts, that entry is parts[0], and the entries are in conversation order
\* and then mapping order; no other node contributes.
C1_ExtractsFirstParts ==
    pc = "extracted" =>
        LET ns == AllNodes(conversations)
            Q  == {i \in 1..Len(ns) : PartLists(ns[i]) # {}}
        IN  /\ Len(user_messages) = Cardinality(Q)
            /\ \A i \in Q :
                 \E p \in PartLists(ns[i]) :
                    user_messages[Cardinality({j \in Q : j <= i})] = p.v[1]

\* C1 witness: two conversations of one user node each, the first with the
\* parts ["b", "a"]: the list returned is ["b", "a"].
C1_Witness ==
    /\ pc = "extracted"
    /\ Len(conversations) = 2
    /\ user_messages = <<PartB, PartA>>
    /\ \E i \in 1..Len(AllNodes(conversations)) :
          List(<<PartB, PartA>>) \in PartLists(AllNodes(conversations)[i])

\* C2: the extraction never raises, whatever the message, author, content
\* or parts of a node.
C2_NeverRaises == pc # "raised"

----------------------------------------------------------------------------
(* Python str operations, on sequences of one-character strings.  A list   *)
(* built element by element is written [i \in 1..n |-> e] \o <<>>: the      *)
(* concatenation makes the model checker compute the elements once.        *)

UpperLetters ==
    <<"A", "B", "C", "D", "E", "F", "G", "H", "I", "J", "K", "L", "M",
      "N", "O", "P", "Q", "R", "S", "T", "U", "V", "W", "X", "Y", "Z">>
LowerLetters ==
    <<"a", "b", "c", "d", "e", "f", "g", "h", "i", "j", "k", "l", "m",
      "n", "o", "p", "q", "r", "s", "t", "u", "v", "w", "x", "y", "z">>
Digits == {"0", "1", "2", "3", "4", "5", "6", "7", "8", "9"}
Range(f) == {f[i] : i \in DOMAIN f}

\* A character is one of U+0000 to U+00FF.  The letters of U+0080 to U+00FF
\* that str.lower() changes, and what it changes them to.
Latin1Upper ==
    <<"À", "Á", "Â", "Ã", "Ä", "Å", "Æ", "Ç", "È", "É", "Ê", "Ë", "Ì", "Í",
      "Î", "Ï", "Ð", "Ñ", "Ò", "Ó", "Ô", "Õ", "Ö", "Ø", "Ù", "Ú", "Û", "Ü",
      "Ý", "Þ">>
Latin1Lower ==
    <<"à", "á", "â", "ã", "ä", "å", "æ", "ç", "è", "é", "ê", "ë", "ì", "í",
      "î", "ï", "ð", "ñ", "ò", "ó", "ô", "õ", "ö", "ø", "ù", "ú", "û", "ü",
      "ý", "þ">>
\* The other characters of U+0080 to U+00FF that \w matches: letters without
\* case and ones that str.lower() leaves, superscripts and fractions.
Latin1OtherWord ==
    {"ª", "²", "³", "µ", "¹", "º", "¼", "½", "¾", "ß", "ÿ"}

\* c.lower() for one character
LowerChar(c) ==
    IF c \in Range(UpperLetters)
    THEN LowerLetters[CHOOSE i \in DOMAIN UpperLetters : UpperLetters[i] = c]
    ELSE IF c \in Range(Latin1Upper)
    THEN Latin1Lower[CHOOSE i \in DOMAIN Latin1Upper : Latin1Upper[i] = c]
    ELSE c

\* s.lower()
Lower(s) == [i \in 1..Len(s) |-> LowerChar(s[i])] \o <<>>

\* c.isspace(): tab, line feed, vertical tab, form feed, carriage return,
\* U+001C to U+001F, space, U+0085 and U+00A0.
IsSpace(c) ==
    c \in {"\t", "\n", "", "\f", "\r", "", "", "", "", " ",
           "", " "}

\* the class [a-zA-Z]
IsAlpha(c) == c \in Range(UpperLetters) \cup Range(LowerLetters)

\* s.split(): the maximal runs of non-whitespace characters, in order.
\* cur is the run being read, acc the runs already closed.
RECURSIVE SplitFrom(_, _, _, _)
SplitFrom(s, i, cur, acc) ==
    IF i > Len(s) THEN (IF cur = <<>> THEN acc ELSE Append(acc, cur))
    ELSE IF IsSpace(s[i])
         THEN SplitFrom(s, i + 1, <<>>, IF cur = <<>> THEN acc ELSE Append(acc, cur))
         ELSE SplitFrom(s, i + 1, Append(cur, s[i]), acc)

Split(s) == SplitFrom(s, 1, <<>>, <<>>)

\* s.strip()
RECURSIVE LStrip(_)
LStrip(s) == IF s # <<>> /\ IsSpace(Head(s)) THEN LStrip(Tail(s)) ELSE s
RECURSIVE RStrip(_)
RStrip(s) ==
    IF s # <<>> /\ IsSpace(s[Len(s)]) THEN RStrip(SubSeq(s, 1, Len(s) - 1)) ELSE s
Strip(s) == RStrip(LStrip(s))

\* isinstance(v, str)
IsStr(v) == v.t = "str"

\* The concatenation of the sequences of a sequence.
RECURSIVE Flatten(_)
Flatten(seqs) == IF seqs = <<>> THEN <<>> ELSE Head(seqs) \o Flatten(Tail(seqs))

----------------------------------------------------------------------------
(* The stoplist and the frequency analysis.                                *)

\* The list of the top 100 most common English words (the same in both files).
top_english_words ==
    <<
    <<"t", "h", "e">>, <<"b", "e">>, <<"t", "o">>, <<"o", "f">>,
    <<"a", "n", "d">>, <<"a">>, <<"i", "n">>, <<"t", "h", "a", "t">>,
    <<"h", "a", "v", "e">>, <<"I">>, <<"i", "t">>, <<"f", "o", "r">>,
    <<"n", "o", "t">>, <<"o", "n">>, <<"w", "i", "t", "h">>, <<"h", "e">>,
    <<"a", "s">>, <<"y", "o", "u">>, <<"d", "o">>, <<"a", "t">>,
    <<"t", "h", "i", "s">>, <<"b", "u", "t">>, <<"h", "i", "s">>,
    <<"b", "y">>, <<"f", "r", "o", "m">>, <<"t", "h", "e", "y">>,
    <<"w", "e">>, <<"s", "a", "y">>, <<"h", "e", "r">>, <<"s", "h", "e">>,
    <<"o", "r">>, <<"a", "n">>, <<"w", "i", "l", "l">>, <<"m", "y">>,
    <<"o", "n", "e">>, <<"a", "l", "l">>, <<"w", "o", "u", "l", "d">>,
    <<"t", "h", "e", "r", "e">>, <<"t", "h", "e", "i", "r">>,
    <<"w", "h", "a", "t">>, <<"s", "o">>, <<"u", "p">>, <<"o", "u", "t">>,
    <<"i", "f">>, <<"a", "b", "o", "u", "t">>, <<"w", "h", "o">>,
    <<"g", "e", "t">>, <<"w", "h", "i", "c", "h">>, <<"g", "o">>,
    <<"m", "e">>, <<"w", "h", "e", "n">>, <<"m", "a", "k", "e">>,
    <<"c", "a", "n">>, <<"l", "i", "k", "e">>, <<"t", "i", "m", "e">>,
    <<"n", "o">>, <<"j", "u", "s", "t">>, <<"h", "i", "m">>,
    <<"k", "n", "o", "w">>, <<"t", "a", "k", "e">>,
    <<"p", "e", "o", "p", "l", "e">>, <<"i", "n", "t", "o">>,
    <<"y", "e", "a", "r">>, <<"y", "o", "u", "r">>, <<"g", "o", "o", "d">>,
    <<"s", "o", "m", "e">>, <<"c", "o", "u", "l", "d">>,
    <<"t", "h", "e", "m">>, <<"s", "e", "e">>, <<"o", "t", "h", "e", "r">>,
    <<"t", "h", "a", "n">>, <<"t", "h", "e", "n">>, <<"n", "o", "w">>,
    <<"l", "o", "o", "k">>, <<"o", "n", "l", "y">>, <<"c", "o", "m", "e">>,
    <<"i", "t", "s">>, <<"o", "v", "e", "r">>, <<"t", "h", "i", "n", "k">>,
    <<"a", "l", "s", "o">>, <<"b", "a", "c", "k">>,
    <<"a", "f", "t", "e", "r">>, <<"u", "s", "e">>, <<"t", "w", "o">>,
    <<"h", "o", "w">>, <<"o", "u", "r">>, <<"w", "o", "r", "k">>,
    <<"f", "i", "r", "s", "t">>, <<"w", "e", "l", "l">>, <<"w", "a", "y">>,
    <<"e", "v", "e", "n">>, <<"n", "e", "w">>, <<"w", "a", "n", "t">>,
    <<"b", "e", "c", "a", "u", "s", "e">>, <<"a", "n", "y">>,
    <<"t", "h", "e", "s", "e">>, <<"g", "i", "v", "e">>, <<"d", "a", "y">>,
    <<"m", "o", "s", "t">>, <<"u", "s">>
    >>

\* re.sub(r'[^a-zA-Z]', '', word).lower()
CleanWord(word) == Lower(SelectSeq(word, IsAlpha))

\* clean_and_filter_words(words), parse3.py
KeepClean(clean_word) ==
    Len(clean_word) > 1 /\ clean_word \notin Range(top_english_words)
clean_and_filter_words(words) ==
    SelectSeq([i \in 1..Len(words) |-> CleanWord(words[i])], KeepClean)

\* Counter(words): the distinct words in the order of their first occurrence,
\* each with its count.
RECURSIVE CounterFrom(_, _, _)
CounterFrom(words, i, counts) ==
    IF i > Len(words) THEN counts
    ELSE CounterFrom(words, i + 1,
            IF \E k \in 1..Len(counts) : counts[k][1] = words[i]
            THEN [k \in 1..Len(counts) |->
                    IF counts[k][1] = words[i]
                    THEN <<counts[k][1], counts[k][2] + 1>> ELSE counts[k]]
            ELSE Append(counts, <<words[i], 1>>))

Counter(words) == CounterFrom(words, 1, <<>>)

\* sorted(items, key=itemgetter(1), reverse=True): a stable sort, by insertion.
RECURSIVE InsertByCount(_, _)
InsertByCount(sorted, item) ==
    IF sorted = <<>> THEN <<item>>
    ELSE IF sorted[Len(sorted)][2] >= item[2] THEN Append(sorted, item)
         ELSE Append(InsertByCount(SubSeq(sorted, 1, Len(sorted) - 1), item),
                     sorted[Len(sorted)])

RECURSIVE SortedByCount(_, _, _)
SortedByCount(items, i, sorted) ==
    IF i > Len(items) THEN sorted
    ELSE SortedByCount(items, i + 1, InsertByCount(sorted, items[i]))

\* most_common with the items of equal count in reverse insertion order.
MostCommonUnstable(counts, n) ==
    LET rev == [i \in 1..Len(counts) |-> counts[Len(counts) + 1 - i]]
        all == SortedByCount(rev, 1, <<>>)
    IN  IF n <= 0 THEN <<>> ELSE SubSeq(all, 1, IF n < Len(all) THEN n ELSE Len(all))

\* counts.most_common(n) for an integer n: heapq.nlargest(n, items, key=count),
\* which is sorted(items, key=count, reverse=True)[:n], and [] when n <= 0.
most_common(counts, n) ==
    LET all == SortedByCount(counts, 1, <<>>)
    IN  IF n <= 0 THEN <<>> ELSE SubSeq(all, 1, IF n < Len(all) THEN n ELSE Len(all))

\* The string utterances: [message for message in messages if isinstance(message, str)]
StrMessages(messages) == SelectSeq(messages, IsStr)

\* common_words_analysis of parse.py: the words counted, and what is printed.
NotTopEnglish(word) == word \notin Range(top_english_words)
words_parse(messages, filter_english) ==
    LET strs  == StrMessages(messages)
        words == Flatten([i \in 1..Len(strs) |-> Split(Lower(strs[i].v))])
    IN  IF filter_english THEN SelectSeq(words, NotTopEnglish) ELSE words
common_words_analysis_parse(messages, top_n, filter_english) ==
    most_common(Counter(words_parse(messages, filter_english)), top_n)

\* common_words_analysis of parse3.py: the words counted, and what is returned
\* under "common_words".
words_parse3(messages, filter_english) ==
    LET strs  == StrMessages(messages)
        words == Flatten([i \in 1..Len(strs) |-> Split(strs[i].v)])
    IN  IF filter_english THEN clean_and_filter_words(words) ELSE words
common_words_analysis_parse3(messages, top_n, filter_english) ==
    most_common(Counter(words_parse3(messages, filter_english)), top_n)

----------------------------------------------------------------------------
(* The frequency analysis, run on its own on an utterance sequence.        *)

\* The utterances the analyses are run on.
UtterancePool ==
    {
     \* the two utterances of the specification's example
     Str(<<"c", "a", "t", " ", "d", "o", "g">>),
     Str(<<"c", "a", "t", " ", "c", "a", "t">>),
     \* the specification's example of a stoplist word
     Str(<<"t", "h", "e", " ", "c", "a", "t", " ", "t", "h", "e", " ", "d", "o", "g">>),
     \* capitals, punctuation attached to a stoplist word, the stoplist's "I"
     Str(<<"C", "a", "t", " ", "T", "H", "E", ",", " ", "I">>),
     \* runs of whitespace, a vertical tab, a tab, one-letter words, "it's"
     \* (cleaned: "its")
     Str(<<"d", "o", "g", " ", "", "a", "\t", "i", "t", "'", "s", " ", "x">>),
     \* digits and punctuation only; words that differ in case only, one of
     \* them of letters outside a-z
     Str(<<"D", "o", "g", " ", "4", "2", " ", "d", "o", "g", "!", " ",
           "É", "t", "é", " ", "é", "t", "é">>),
     \* whitespace only
     Str(<<" ", " ">>),
     \* not a str
     Null}

ExampleUtterances ==
    <<Str(<<"c", "a", "t", " ", "d", "o", "g">>), Str(<<"c", "a", "t", " ", "c", "a", "t">>)>>

InitWords ==
    /\ entry \in {"parse", "parse3"}
    /\ pc = "extracted"
    /\ conversations = <<>>
    /\ \E n \in 0..MaxUtterances : user_messages \in [1..n -> UtterancePool]
    /\ args = NoArgs
    /\ results = <<>>
    /\ executed = <<>>
    /\ exc = "none"
    /\ similarity_matrix = <<>>
    /\ rounding = <<>>
    /\ printed = <<>>

\* The words the entry point counts, and common_words_analysis of the entry point.
CountedWords(e, messages, filter_english) ==
    IF e = "parse" THEN words_parse(messages, filter_english)
    ELSE words_parse3(messages, filter_english)
common_words_analysis(e, messages, top_n, filter_english) ==
    IF e = "parse" THEN common_words_analysis_parse(messages, top_n, filter_english)
    ELSE common_words_analysis_parse3(messages, top_n, filter_english)

\* common_words_analysis(user_messages, top_n, filter_english)
CommonWords ==
    /\ pc = "extracted"
    /\ \E top_n \in 0..MaxTopN, filter_english \in BOOLEAN :
         /\ args' = [top_n |-> top_n, filter_english |-> filter_english]
         /\ results' = [common_words |->
                          common_words_analysis(entry, user_messages, top_n, filter_english)]
    /\ pc' = "done"
    /\ executed' = Append(executed, "common_words")
    \* parse.py prints the result in the call, parse3.py returns it
    /\ printed' = IF entry = "parse" THEN Append(printed, "common_words") ELSE printed
    /\ UNCHANGED <<entry, conversations, user_messages, exc, similarity_matrix, rounding>>

NextWords == CommonWords

SpecWords == InitWords /\ [][NextWords]_vars

\* The number of occurrences of a word in a list, and its first position.
Occurrences(w, words) == Cardinality({i \in 1..Len(words) : words[i] = w})
FirstAt(w, words) == CHOOSE i \in 1..Len(words) : words[i] = w /\ \A j \in 1..(i - 1) : words[j] # w

\* Word v with count c ranks before word w with count d in a list of words.
RanksBefore(v, c, w, d, words) ==
    c > d \/ (c = d /\ FirstAt(v, words) < FirstAt(w, words))

\* C3: the analysis returns min(top_n, number of distinct words) pairs, each a
\* counted word with its exact number of occurrences, in descending order of
\* count and, at equal counts, in the order of first occurrence, and no word
\* left out ranks before a word returned; on the specification's example
\* with top_n = 2 and no filter the result is [("cat", 3), ("dog", 1)].
C3_TopWords ==
    pc = "done" =>
        LET words == CountedWords(entry, user_messages, args.filter_english)
            r == results.common_words
            distinct == Range(words)
            returned == {r[k][1] : k \in 1..Len(r)}
        IN  /\ Len(r) = IF args.top_n < Cardinality(distinct)
                        THEN args.top_n ELSE Cardinality(distinct)
            /\ \A k \in 1..Len(r) :
                 r[k][1] \in distinct /\ r[k][2] = Occurrences(r[k][1], words)
            /\ \A k, l \in 1..Len(r) :
                 k < l => RanksBefore(r[k][1], r[k][2], r[l][1], r[l][2], words)
            /\ \A w \in distinct \ returned : \A k \in 1..Len(r) :
                 RanksBefore(r[k][1], r[k][2], w, Occurrences(w, words), words)
            /\ (user_messages = ExampleUtterances /\ args.top_n = 2 /\ ~args.filter_english)
                 => r = << <<(<<"c", "a", "t">>), 3>>, <<(<<"d", "o", "g">>), 1>> >>

\* C3 witness: the top two are asked for of more than two distinct words, a
\* non-str utterance is skipped, the first word occurs more often than the
\* second, and another word occurs as often as the second.
C3_Witness ==
    /\ pc = "done"
    /\ args.top_n = 2
    /\ \E i \in 1..Len(user_messages) : ~IsStr(user_messages[i])
    /\ Len(results.common_words) = 2
    /\ Cardinality(Range(CountedWords(entry, user_messages, args.filter_english))) > 2
    /\ results.common_words[1][2] > results.common_words[2][2]
    /\ \E w \in Range(CountedWords(entry, user_messages, args.filter_english)) :
          /\ w # results.common_words[2][1]
          /\ Occurrences(w, CountedWords(entry, user_messages, args.filter_english))
               = results.common_words[2][2]

\* A str is lowercase, alphabetic.
IsLowerStr(w) == Lower(w) = w
IsAlphaStr(w) == \A i \in 1..Len(w) : IsAlpha(w[i])

\* C4: with filter_english, every word the analysis counts is lowercase,
\* alphabetic, longer than one character and not a stoplist word in any
\* letter case, in both entry points.
C4_FilteredWordsClean ==
    (pc = "done" /\ args.filter_english) =>
        \A k \in 1..Len(results.common_words) :
            LET w == results.common_words[k][1]
            IN  /\ IsLowerStr(w)
                /\ IsAlphaStr(w)
                /\ Len(w) > 1
                /\ \A i \in DOMAIN top_english_words : Lower(top_english_words[i]) # w

\* C10: without filter_english, every word returned is lowercase and no two
\* words returned differ in letter case only, in both entry points.
C10_UnfilteredWordsLowercase ==
    (pc = "done" /\ ~args.filter_english) =>
        /\ \A k \in 1..Len(results.common_words) : IsLowerStr(results.common_words[k][1])
        /\ \A k, l \in 1..Len(results.common_words) :
              Lower(results.common_words[k][1]) = Lower(results.common_words[l][1]) => k = l

----------------------------------------------------------------------------
(* The similarity detector: CountVectorizer, cosine_similarity and         *)
(* question_rephrasing_analysis.                                           *)

\* The class \w of a str pattern
IsWordChar(c) ==
    \/ IsAlpha(c) \/ c \in Digits \/ c = "_"
    \/ c \in Range(Latin1Upper) \cup Range(Latin1Lower) \cup Latin1OtherWord

\* The maximal runs of word characters of s, in order.
RECURSIVE WordRunsFrom(_, _, _, _)
WordRunsFrom(s, i, cur, acc) ==
    IF i > Len(s) THEN (IF cur = <<>> THEN acc ELSE Append(acc, cur))
    ELSE IF ~IsWordChar(s[i])
         THEN WordRunsFrom(s, i + 1, <<>>, IF cur = <<>> THEN acc ELSE Append(acc, cur))
         ELSE WordRunsFrom(s, i + 1, Append(cur, s[i]), acc)

WordRuns(s) == WordRunsFrom(s, 1, <<>>, <<>>)

\* CountVectorizer's analyzer with its defaults: lowercase, then the matches
\* of the token pattern \b\w\w+\b (the runs of two or more word characters).
LongEnough(token) == Len(token) >= 2
Tokenize(doc) == SelectSeq(WordRuns(Lower(doc)), LongEnough)

\* The vocabulary fitted on the documents, given the tokens of all of them:
\* the distinct tokens, one column each (the library sorts the columns, which
\* changes no dot product; here they are in the order of first occurrence).
RECURSIVE VocabularyFrom(_, _, _)
VocabularyFrom(tokens, k, vocab) ==
    IF k > Len(tokens) THEN vocab
    ELSE VocabularyFrom(tokens, k + 1,
            IF tokens[k] \in Range(vocab) THEN vocab ELSE Append(vocab, tokens[k]))
Vocabulary(tokens) == VocabularyFrom(tokens, 1, <<>>)

\* The count vector of a document over a vocabulary, given its tokens.
CountVector(toks, vocab) ==
    [c \in 1..Len(vocab) |-> Cardinality({k \in 1..Len(toks) : toks[k] = vocab[c]})] \o <<>>

\* CountVectorizer().fit_transform(docs): one count vector per document, or
\* ValueError("empty vocabulary; ...") when no document has a token.
fit_transform(docs) ==
    LET tokens == [i \in 1..Len(docs) |-> Tokenize(docs[i].v)] \o <<>>
        vocab  == Vocabulary(Flatten(tokens))
    IN  IF vocab = <<>> THEN Raise("ValueError")
        ELSE List([i \in 1..Len(docs) |-> CountVector(tokens[i], vocab)] \o <<>>)

\* The dot product of two vectors over the same vocabulary.
RECURSIVE DotFrom(_, _, _)
DotFrom(u, v, c) == IF c > Len(u) THEN 0 ELSE u[c] * v[c] + DotFrom(u, v, c + 1)
Dot(u, v) == DotFrom(u, v, 1)

\* cosine_similarity(X)[i, j] in exact arithmetic: dot / sqrt(n1 * n2), and 0
\* when a row is zero (normalize leaves a zero row as it is).  The float the
\* library computes is this value up to rounding.
Cosine(u, v) == [dot |-> Dot(u, v), n1 |-> Dot(u, u), n2 |-> Dot(v, v)]

cosine_similarity(X) ==
    LET n == [i \in 1..Len(X) |-> Dot(X[i], X[i])] \o <<>>
    IN  [i \in 1..Len(X) |->
            [j \in 1..Len(X) |->
                [dot |-> Dot(X[i], X[j]), n1 |-> n[i], n2 |-> n[j]]] \o <<>>] \o <<>>

\* The sign of sim - threshold in exact arithmetic; the threshold is a
\* fraction <<numerator, denominator>> with a positive denominator.
ExactSign(sim, threshold) ==
    LET num == threshold[1]
        den == threshold[2]
        lhs == sim.dot * sim.dot * den * den
        rhs == num * num * sim.n1 * sim.n2
    IN  IF sim.dot = 0 THEN (IF num > 0 THEN -1 ELSE IF num = 0 THEN 0 ELSE 1)
        ELSE IF num <= 0 THEN 1
        ELSE IF lhs > rhs THEN 1 ELSE IF lhs = rhs THEN 0 ELSE -1

\* The pairs of vectors whose similarity is a rounded float that equals the
\* threshold in exact arithmetic (a similarity of no common token is 0.0
\* exactly).
Critical(X, threshold) ==
    {{X[p[1]], X[p[2]]} :
        p \in {q \in (1..Len(X)) \X (1..Len(X)) :
                  /\ q[1] < q[2]
                  /\ Dot(X[q[1]], X[q[2]]) > 0
                  /\ ExactSign(Cosine(X[q[1]], X[q[2]]), threshold) = 0}}

\* similarity_matrix[i, j] >= similarity_threshold
ExceedsOrEquals(sim, threshold, r) ==
    LET sgn == ExactSign(sim, threshold)
    IN  IF sgn # 0 THEN sgn > 0 ELSE r >= 0

\* similarity_matrix[i, j] > similarity_threshold, on the floats: when the two
\* are equal in exact arithmetic, r is the sign of (float - threshold).
Exceeds(sim, threshold, r) ==
    LET sgn == ExactSign(sim, threshold)
    IN  IF sgn # 0 THEN sgn > 0 ELSE r > 0

\* msg.strip().endswith('?')
EndsWithQuestionMark(s) == Strip(s) # <<>> /\ Strip(s)[Len(Strip(s))] = "?"

\* [msg for msg in messages if isinstance(msg, str) and msg.strip().endswith('?')]
IsQuestion(msg) == IsStr(msg) /\ EndsWithQuestionMark(msg.v)
Questions(messages) == SelectSeq(messages, IsQuestion)

\* The list comprehension over i and j > i, from the pair (i, j) on.
RECURSIVE PairsFrom(_, _, _, _, _, _)
PairsFrom(questions, S, threshold, R, i, j) ==
    IF i > Len(questions) THEN <<>>
    ELSE IF j > Len(questions) THEN PairsFrom(questions, S, threshold, R, i + 1, i + 2)
    ELSE (IF Exceeds(S[i][j], threshold, R[i][j])
          THEN << <<questions[i], questions[j]>> >> ELSE <<>>)
         \o PairsFrom(questions, S, threshold, R, i, j + 1)

\* similar_questions[:5]
FirstFive(pairs) == SubSeq(pairs, 1, IF Len(pairs) < 5 THEN Len(pairs) ELSE 5)

\* The rounding of each entry of the matrix, from that of the pairs of Critical.
RoundingOf(X, rnd) ==
    [i \in 1..Len(X) |->
        [j \in 1..Len(X) |->
            IF {X[i], X[j]} \in DOMAIN rnd THEN rnd[{X[i], X[j]}] ELSE 0] \o <<>>] \o <<>>

\* The roundings floating point may produce for a call.
Roundings(messages, threshold) ==
    LET X == fit_transform(Questions(messages))
    IN  IF X.t = "raise" THEN {<<>>}
        ELSE [Critical(X.v, threshold) -> {-1, 0, 1}]

\* question_rephrasing_analysis(messages, similarity_threshold): the similarity
\* matrix and the pairs returned (parse3.py) or printed (parse.py), or
\* Raise(e).
question_rephrasing_analysis(messages, threshold, rnd) ==
    LET questions == Questions(messages)
        X == fit_transform(questions)
    IN  IF X.t = "raise" THEN X
        ELSE LET S == cosine_similarity(X.v)
                 R == RoundingOf(X.v, rnd)
             IN  [t |-> "ok",
                  similarity_matrix |-> S,
                  rounding |-> R,
                  similar_questions |->
                      FirstFive(PairsFrom(questions, S, threshold, R, 1, 2))]

----------------------------------------------------------------------------
(* The similarity detector, run on its own on an utterance sequence.       *)

QuestionPool ==
    {Str(<<"a", "b", " ", "c", "d", "?">>),
     \* a token twice, trailing whitespace (a space and a vertical tab)
     Str(<<"a", "b", " ", "a", "b", " ", "c", "d", "?", " ", "">>),
     \* the tokens of the first in another order and case
     Str(<<"C", "d", " ", "a", "b", "?">>),
     \* half of the tokens of the first, and a token with a letter outside a-z
     Str(<<"a", "b", " ", "É", "f", "?">>),
     \* no token of two characters
     Str(<<"a", " ", "b", "?">>),
     \* not a question
     Str(<<"a", "b", " ", "c", "d", ".">>),
     \* not a str
     Null}

\* --similarity-threshold, as fractions: 0, the default 0.5, 0.95 and 1.0
Thresholds == {<<0, 1>>, <<1, 2>>, <<19, 20>>, <<1, 1>>}

\* The function is the same in both files, but for parse.py printing what
\* parse3.py returns: it is run as parse3.py's.
InitRephrase ==
    /\ entry = "parse3"
    /\ pc = "extracted"
    /\ conversations = <<>>
    /\ \E n \in 0..MaxQuestions : user_messages \in [1..n -> QuestionPool]
    /\ args = NoArgs
    /\ results = <<>>
    /\ executed = <<>>
    /\ exc = "none"
    /\ similarity_matrix = <<>>
    /\ rounding = <<>>
    /\ printed = <<>>

\* question_rephrasing_analysis(user_messages, similarity_threshold)
Rephrase ==
    /\ pc = "extracted"
    /\ \E threshold \in Thresholds :
       \E rnd \in Roundings(user_messages, threshold) :
       \E r \in {question_rephrasing_analysis(user_messages, threshold, rnd)} :
         /\ args' = [similarity_threshold |-> threshold]
         /\ IF r.t = "raise"
            THEN /\ pc' = "raised"
                 /\ exc' = r.exc
                 /\ UNCHANGED <<results, executed, similarity_matrix, rounding,
                                printed>>
            ELSE /\ pc' = "done"
                 /\ exc' = exc
                 /\ results' = [similar_questions |-> r.similar_questions]
                 /\ executed' = Append(executed, "rephrasing")
                 /\ similarity_matrix' = r.similarity_matrix
                 /\ rounding' = r.rounding
                 \* parse.py prints the result in the call
                 /\ printed' = IF entry = "parse"
                               THEN Append(printed, "rephrasing") ELSE printed
    /\ UNCHANGED <<entry, conversations, user_messages>>

NextRephrase == Rephrase

SpecRephrase == InitRephrase /\ [][NextRephrase]_vars

----------------------------------------------------------------------------
(* Claims about the similarity detector.                                   *)

\* An utterance is interrogative: a str whose last character that is not
\* whitespace is '?'.
IsInterrogative(m) ==
    /\ m.t = "str"
    /\ \E k \in 1..Len(m.v) :
          m.v[k] = "?" /\ \A l \in (k + 1)..Len(m.v) : IsSpace(m.v[l])
Interrogatives == SelectSeq(user_messages, IsInterrogative)

\* The similarity is, in exact arithmetic, above or equal to the threshold
\* <<numerator, denominator>> (a similarity is never negative).
ExactAbove(sim, t) ==
    IF sim.dot = 0 THEN t[1] < 0
    ELSE t[1] <= 0 \/ sim.dot * sim.dot * t[2] * t[2] > t[1] * t[1] * sim.n1 * sim.n2
ExactEqual(sim, t) ==
    IF sim.dot = 0 THEN t[1] = 0
    ELSE t[1] > 0 /\ sim.dot * sim.dot * t[2] * t[2] = t[1] * t[1] * sim.n1 * sim.n2

\* The computed similarity of the interrogatives i and j is strictly greater
\* than the threshold, or equals it.
FloatAbove(i, j) ==
    \/ ExactAbove(similarity_matrix[i][j], args.similarity_threshold)
    \/ /\ ExactEqual(similarity_matrix[i][j], args.similarity_threshold)
       /\ rounding[i][j] = 1
FloatEqual(i, j) ==
    /\ ExactEqual(similarity_matrix[i][j], args.similarity_threshold)
    /\ rounding[i][j] = 0

\* The pairs i < j of interrogatives whose similarity exceeds the threshold,
\* and the place of such a pair in row-major order.
SimilarPairs ==
    {p \in (1..Len(Interrogatives)) \X (1..Len(Interrogatives)) :
        p[1] < p[2] /\ FloatAbove(p[1], p[2])}
PlaceOf(p) ==
    1 + Cardinality({o \in SimilarPairs :
                        o[1] < p[1] \/ (o[1] = p[1] /\ o[2] < p[2])})

\* C5: with no or one interrogative utterance the analysis returns an empty
\* list of pairs and does not raise.
C5_FewQuestionsEmptyResult ==
    (pc \in {"done", "raised"} /\ Len(Interrogatives) <= 1) =>
        (pc = "done" /\ results.similar_questions = <<>>)

\* C6: when the analysis returns, the result is the first five (or all, if
\* fewer) of the pairs (questions[i], questions[j]), i < j, of interrogative
\* utterances whose similarity is strictly greater than the threshold, in
\* row-major order; it never holds more than five pairs, and a pair whose
\* similarity equals the threshold is not among those it is taken from.
C6_FirstFivePairsAboveThreshold ==
    pc = "done" =>
        LET r == results.similar_questions
        IN  /\ Len(r) <= 5
            /\ Len(r) = IF Cardinality(SimilarPairs) < 5
                        THEN Cardinality(SimilarPairs) ELSE 5
            /\ \A p \in SimilarPairs :
                  PlaceOf(p) <= 5 =>
                     r[PlaceOf(p)] = <<Interrogatives[p[1]], Interrogatives[p[2]]>>
            /\ \A i, j \in 1..Len(Interrogatives) :
                  (i < j /\ FloatEqual(i, j)) => <<i, j>> \notin SimilarPairs

\* C6 witness: six pairs of four interrogative utterances exceed the
\* threshold and five are returned.
C6_Witness ==
    /\ pc = "done"
    /\ Len(Interrogatives) = 4
    /\ Cardinality(SimilarPairs) = 6
    /\ Len(results.similar_questions) = 5

\* The tokens of an utterance, of any length, and whether two utterances have
\* the same set of them.
TokensOf(m) == WordRuns(Lower(m.v))
SameTokenSet(m1, m2) == Range(TokensOf(m1)) = Range(TokensOf(m2))

\* The call returned the one pair of the two interrogatives, their similarity
\* being 1 in exact arithmetic.
EmitsThePairAtOne ==
    /\ pc = "done"
    /\ similarity_matrix[1][2].dot > 0
    /\ similarity_matrix[1][2].dot * similarity_matrix[1][2].dot
         = similarity_matrix[1][2].n1 * similarity_matrix[1][2].n2
    /\ results.similar_questions = << <<Interrogatives[1], Interrogatives[2]>> >>

\* C7: two interrogative utterances with identical token sets have similarity
\* 1.0 and are returned as a pair for every threshold below 1.0, whatever the
\* multiplicities and the lengths of the tokens.
C7_SameTokenSetSimilarityOne ==
    (/\ pc \in {"done", "raised"}
     /\ Len(Interrogatives) = 2
     /\ SameTokenSet(Interrogatives[1], Interrogatives[2])
     /\ args.similarity_threshold[1] < args.similarity_threshold[2])
    => EmitsThePairAtOne

----------------------------------------------------------------------------
(* The topic model and print_english_words.                                *)

\* max_features of the TfidfVectorizer
MaxFeatures == 1000

\* stop_words='english': the words of the library's list that occur in the
\* utterances of this model.
SklearnStopWords == {<<"t", "h", "e">>, <<"i", "t">>, <<"i", "t", "s">>}
NotSklearnStop(token) == token \notin SklearnStopWords

\* The vocabulary TfidfVectorizer(max_features=1000, stop_words='english',
\* lowercase=True) fits on the documents, before the cap.
TfidfVocabulary(docs) ==
    Vocabulary(Flatten([i \in 1..Len(docs) |->
                          SelectSeq(Tokenize(docs[i].v), NotSklearnStop)] \o <<>>))

\* len(a[:-top_words-1:-1]) for a of the given size: from the last element
\* down to, and without, the index -top_words-1, which counts from the end
\* when it is negative and from the start when it is not.
TopWordsLength(size, top_words) ==
    IF top_words >= 0
    THEN (IF top_words < size THEN top_words ELSE size)
    ELSE (IF size + top_words > 0 THEN size + top_words ELSE 0)

\* topic_modeling_analysis(messages, num_topics, top_words): ValueError("empty
\* vocabulary; ...") from fit_transform when no document has a token;
\* ValueError from LatentDirichletAllocation.fit when num_topics is not
\* positive; otherwise a dict of num_topics topics, "Topic 0" on, each the
\* list topic.argsort()[:-top_words-1:-1] of words.  Which words is decided by
\* the numerics of the library and is not modelled: a topic is kept as the
\* length of its list.
topic_modeling_analysis(messages, num_topics, top_words) ==
    LET vocab == TfidfVocabulary(StrMessages(messages))
        size  == IF Len(vocab) < MaxFeatures THEN Len(vocab) ELSE MaxFeatures
    IN  IF vocab = <<>> THEN Raise("ValueError")
        ELSE IF num_topics < 1 THEN Raise("ValueError")
        ELSE [t |-> "ok",
              topics |-> [k \in {"Topic " \o ToString(i) : i \in 0..(num_topics - 1)}
                            |-> TopWordsLength(size, top_words)]]

\* top_english_words[:count]
print_english_words(count) ==
    LET n == Len(top_english_words)
    IN  SubSeq(top_english_words, 1,
               IF count >= n THEN n ELSE IF count >= 0 THEN count
               ELSE IF n + count > 0 THEN n + count ELSE 0)

----------------------------------------------------------------------------
(* The command line run of both scripts.                                   *)

\* The defaults of --top-n, --num-topics, --top-words and of a bare
\* --print-english-words; the default of --similarity-threshold is 0.5.
DefaultTopN == 20
DefaultNumTopics == 10
DefaultTopWords == 10
BarePrintEnglishWords == 100
DefaultThreshold == <<1, 2>>

\* The namespace parse_args returns; print_english_words is None when the
\* option is not given, --top-words is the default or -1.  given keeps the three analysis flags as given, which
\* parse3.py overwrites.
CliArgs ==
    {[common_words |-> cw, topic_modeling |-> tm, rephrasing |-> rp,
      print_english_words |-> pew, filter_english_words |-> few,
      top_n |-> DefaultTopN, num_topics |-> DefaultNumTopics,
      top_words |-> tw, similarity_threshold |-> DefaultThreshold,
      given |-> [common_words |-> cw, topic_modeling |-> tm, rephrasing |-> rp]] :
        cw \in BOOLEAN, tm \in BOOLEAN, rp \in BOOLEAN, few \in BOOLEAN,
        pew \in {Null, IntVal(0), IntVal(5), IntVal(BarePrintEnglishWords)},
        tw \in {DefaultTopWords, -1}}

\* A node with a user message of the given parts.
UserNode(parts) ==
    Dict(Item("message",
              Dict(Item("author", UserAuthor)
                   \o Item("content", Dict(Item("parts", List(parts)))))))

\* The files the scripts are run on: no conversation; a user message that is
\* no question; two questions; a question with no token of two characters; a
\* first part that is not a str; a message whose author is null.
CliDocuments ==
    {<<>>,
     <<Conversation(<<UserNode(<<Str(<<"c", "a", "t", " ", "d", "o", "g">>)>>)>>)>>,
     <<Conversation(<<UserNode(<<Str(<<"a", "b", " ", "c", "d", "?">>)>>),
                      UserNode(<<Str(<<"C", "d", " ", "a", "b", "?">>)>>)>>)>>,
     <<Conversation(<<UserNode(<<Str(<<"a", " ", "b", "?">>)>>)>>)>>,
     <<Conversation(<<UserNode(<<EmptyDict>>)>>)>>,
     <<Conversation(<<Dict(Item("message", Dict(Item("author", Null))))>>)>>}

InitCli ==
    /\ entry \in {"parse", "parse3"}
    /\ pc = "main"
    /\ conversations \in CliDocuments
    /\ user_messages = <<>>
    /\ args \in CliArgs
    /\ results = <<>>
    /\ executed = <<>>
    /\ exc = "none"
    /\ similarity_matrix = <<>>
    /\ rounding = <<>>
    /\ printed = <<>>

\* user_messages = extract_user_messages(conversations)
ExtractStep ==
    /\ pc = "main"
    /\ \E r \in {extract_user_messages(conversations)} :
         IF r.t = "raise"
         THEN pc' = "raised" /\ exc' = r.exc /\ user_messages' = user_messages
         ELSE pc' = "dispatch" /\ exc' = exc /\ user_messages' = r.v
    /\ UNCHANGED <<entry, conversations, args, results, executed,
                   similarity_matrix, rounding, printed>>

\* parse3.py: if not any([args.common_words, args.topic_modeling,
\* args.rephrasing, args.print_english_words]): all three analyses are set.
\* parse.py has no such step.
Dispatch ==
    /\ pc = "dispatch"
    /\ args' = IF /\ entry = "parse3"
                  /\ ~(\/ args.common_words \/ args.topic_modeling \/ args.rephrasing
                       \/ Truthy(args.print_english_words))
               THEN [args EXCEPT !.common_words = TRUE, !.topic_modeling = TRUE,
                                 !.rephrasing = TRUE]
               ELSE args
    /\ pc' = "print_english_words"
    /\ UNCHANGED <<entry, conversations, user_messages, results, executed, exc,
                   similarity_matrix, rounding, printed>>

\* What a finished analysis leaves: parse3.py updates results with the dict
\* it returns, parse.py prints.  results holds what the analysis computed in
\* both; printed holds the analyses whose results are on standard output.
Finished(name, update) ==
    /\ results' = update @@ results
    /\ executed' = Append(executed, name)
    /\ printed' = IF entry = "parse" THEN Append(printed, name) ELSE printed

\* if args.print_english_words: print_english_words(args.print_english_words)
PrintEnglishWordsStep ==
    /\ pc = "print_english_words"
    /\ IF Truthy(args.print_english_words)
       THEN Finished("print_english_words",
                     "top_english_words" :> print_english_words(args.print_english_words.v))
       ELSE UNCHANGED <<results, executed, printed>>
    /\ pc' = "common_words"
    /\ UNCHANGED <<entry, conversations, user_messages, args, exc,
                   similarity_matrix, rounding>>

\* if args.common_words: common_words_analysis(user_messages, args.top_n,
\* args.filter_english_words)
CommonWordsStep ==
    /\ pc = "common_words"
    /\ IF args.common_words
       THEN Finished("common_words",
                     "common_words" :>
                        common_words_analysis(entry, user_messages, args.top_n,
                                              args.filter_english_words))
       ELSE UNCHANGED <<results, executed, printed>>
    /\ pc' = "topic_modeling"
    /\ UNCHANGED <<entry, conversations, user_messages, args, exc,
                   similarity_matrix, rounding>>

\* if args.topic_modeling: topic_modeling_analysis(user_messages,
\* args.num_topics, args.top_words)
TopicModelingStep ==
    /\ pc = "topic_modeling"
    /\ IF args.topic_modeling
       THEN \E r \in {topic_modeling_analysis(user_messages, args.num_topics,
                                             args.top_words)} :
              IF r.t = "raise"
              THEN /\ pc' = "raised"
                   /\ exc' = r.exc
                   /\ UNCHANGED <<results, executed, printed>>
              ELSE /\ pc' = "rephrasing"
                   /\ exc' = exc
                   /\ Finished("topic_modeling", r.topics)
       ELSE /\ pc' = "rephrasing"
            /\ UNCHANGED <<results, executed, printed, exc>>
    /\ UNCHANGED <<entry, conversations, user_messages, args,
                   similarity_matrix, rounding>>

\* if args.rephrasing: question_rephrasing_analysis(user_messages,
\* args.similarity_threshold)
RephrasingStep ==
    /\ pc = "rephrasing"
    /\ IF args.rephrasing
       THEN \E rnd \in Roundings(user_messages, args.similarity_threshold) :
            \E r \in {question_rephrasing_analysis(user_messages,
                                                   args.similarity_threshold, rnd)} :
              IF r.t = "raise"
              THEN /\ pc' = "raised"
                   /\ exc' = r.exc
                   /\ UNCHANGED <<results, executed, printed,
                                  similarity_matrix, rounding>>
              ELSE /\ pc' = "output"
                   /\ exc' = exc
                   /\ Finished("rephrasing", "similar_questions" :> r.similar_questions)
                   /\ similarity_matrix' = r.similarity_matrix
                   /\ rounding' = r.rounding
       ELSE /\ pc' = "output"
            /\ UNCHANGED <<results, executed, printed, exc,
                           similarity_matrix, rounding>>
    /\ UNCHANGED <<entry, conversations, user_messages, args>>

\* parse3.py: print(format_results(results, args.output)), every result at
\* once; parse.py has printed each result already.
Output ==
    /\ pc = "output"
    /\ printed' = IF entry = "parse3" THEN executed ELSE printed
    /\ pc' = "done"
    /\ UNCHANGED <<entry, conversations, user_messages, args, results, executed,
                   exc, similarity_matrix, rounding>>

NextCli ==
    \/ ExtractStep
    \/ Dispatch
    \/ PrintEnglishWordsStep
    \/ CommonWordsStep
    \/ TopicModelingStep
    \/ RephrasingStep
    \/ Output

SpecCli == InitCli /\ [][NextCli]_vars

\* The run is over: it printed its output or an exception ended it after the
\* extraction.
RunOver == pc = "done" \/ (pc = "raised" /\ exc # "AttributeError")

\* The analyses the run was to make (after parse3.py's default).
Requested ==
    {a \in {"common_words", "topic_modeling", "rephrasing"} :
        \/ a = "common_words" /\ args.common_words
        \/ a = "topic_modeling" /\ args.topic_modeling
        \/ a = "rephrasing" /\ args.rephrasing}

\* C8: when the topic model is requested with no str utterance, or the
\* similarity detector with no interrogative utterance, the run is not
\* aborted: every requested analysis is executed and its result is output.
C8_EmptyCorpusDoesNotAbort ==
    (/\ RunOver
     /\ \/ args.topic_modeling /\ StrMessages(user_messages) = <<>>
        \/ args.rephrasing /\ Interrogatives = <<>>)
    => (/\ pc = "done"
        /\ Requested \subseteq Range(executed)
        /\ Requested \subseteq Range(printed))

\* C9, on the runs that end normally: when none of --common-words,
\* --topic-modeling and --rephrasing is given, whatever --print-english-words
\* is, all three analyses are executed.
C9_DefaultRunsAllAnalyses ==
    (/\ pc = "done"
     /\ ~args.given.common_words
     /\ ~args.given.topic_modeling
     /\ ~args.given.rephrasing)
    => {"common_words", "topic_modeling", "rephrasing"} \subseteq Range(executed)

====
